---- MODULE Spec2Model ----
(***************************************************************************)
(* Model of the retrieval-augmented support assistant:                     *)
(*   rag/vector_store.py     FAISSVectorStore (add / search / save / load) *)
(*   rag/retriever.py        DocumentRetriever (bootstrap, retrieval)      *)
(*   rag/llm_client.py       LLMClient (retry with backoff, validation)    *)
(*   rag/knowledge_assistant.py  KnowledgeAssistant.resolve_ticket         *)
(*                                                                         *)
(* Similarity scores are cosine similarities in thousandths (0.7 = 700).   *)
(* Embeddings live on a circle in steps of 30 degrees, so that the inner   *)
(* product of two normalised vectors is the cosine of a multiple of 30.    *)
(***************************************************************************)
EXTENDS Integers, Sequences, FiniteSets, TLC

VARIABLES
    (* ---- LLMClient / KnowledgeAssistant: one request in flight ---- *)
    pc,           \* "idle" | "calling" | "returned" | "raised"
    entry,        \* "none" | "generate_response" | "resolve_ticket"
    req,          \* arguments of the request in flight
    attempt,      \* loop variable of _call_openai_with_backoff
    log,          \* events of the request: service calls and sleeps, in order
    invocations,  \* arguments of every generate_response call of the request
    backoff,      \* what _call_openai_with_backoff returned or raised
    outcome,      \* how the request ended: a returned TicketResponse or a raise
    (* ---- FAISSVectorStore instances, the disk, the document source ---- *)
    stores,       \* instance -> [index, documents]
    disk,         \* the two artifacts at the index path
    corpus,       \* what DocumentProcessor.load_documents finds
    retr,         \* instance -> is it owned by a constructed DocumentRetriever
    op,           \* record of the last retriever operation
    mirror,       \* instance -> the instance whose save it was freshly loaded from
    saved,        \* the instance whose completed save_index the disk holds
    lookup,       \* record of the last query operation
    (* ---- DocumentProcessor ---- *)
    proc          \* the DocumentProcessor call in progress: inputs, position, result

genVars   == <<pc, entry, req, attempt, log, invocations, backoff, outcome>>
storeVars == <<stores, disk, corpus, retr, op, mirror, saved, lookup>>
procVars  == <<proc>>
vars      == <<pc, entry, req, attempt, log, invocations, backoff, outcome,
               stores, disk, corpus, retr, op, mirror, saved, lookup,
               proc>>

(***************************************************************************)
(* Bounds of the model.                                                    *)
(***************************************************************************)
MaxDocs == 2          \* entries a store may hold
MaxK == 2             \* largest k a search is asked for
MaxIndex == 4         \* vectors the index of a retriever may hold
MaxText == 5          \* characters of a text given to chunk_text
MaxLength == 3        \* largest max_length given to chunk_text
MaxChunks == 4        \* chunks a chunk_text loop may collect
MaxLines == 4         \* lines of a file given to _process_file
MaxFiles == 2         \* files of a directory given to load_documents
MaxFound == 3         \* results a stubbed search returns

(***************************************************************************)
(* Configuration (utils/config.py).                                        *)
(***************************************************************************)
MAX_RELEVANT_CHUNKS == 5
SIMILARITY_THRESHOLD == 700

\* an optional list argument: None, or a list
None == [isNone |-> TRUE]
List(l) == [isNone |-> FALSE, l |-> l]

(***************************************************************************)
(* Document chunks (models/schemas.py, DocumentChunk) and texts.           *)
(***************************************************************************)
Chunk(content, source) == [content |-> content, source |-> source]

c1 == Chunk("Domains are suspended for abuse.", "policy.md: Suspension")
c2 == Chunk("Refunds are issued within 30 days.", "billing.md: Refunds")
c3 == Chunk("Contact support to reactivate a domain.", "policy.md: Suspension")
c4 == Chunk("Suspended domains are not refunded.", "billing.md: Refunds")

Chunks == {c1, c2, c3, c4}

Queries ==
    { "Why was my domain suspended?",
      "How do I get a refund?",
      "Domains are suspended for abuse.",
      "" }

Texts == Queries \cup {c.content : c \in Chunks}

(***************************************************************************)
(* EmbeddingGenerator: the sentence-transformer is an opaque deterministic *)
(* function of the text; a vector is a direction (multiple of 30 degrees)  *)
(* and a length.                                                           *)
(***************************************************************************)
ModelEncode(text) ==
    CASE text = "Domains are suspended for abuse."        -> [ang |-> 0, mag |-> 2]
      [] text = "Contact support to reactivate a domain." -> [ang |-> 1, mag |-> 1]
      [] text = "Refunds are issued within 30 days."      -> [ang |-> 3, mag |-> 3]
      [] text = "Suspended domains are not refunded."     -> [ang |-> 11, mag |-> 2]
      [] text = "Why was my domain suspended?"            -> [ang |-> 11, mag |-> 1]
      [] text = "How do I get a refund?"                  -> [ang |-> 4, mag |-> 2]
      [] OTHER                                            -> [ang |-> 7, mag |-> 1]

encode_documents(texts) == [i \in 1..Len(texts) |-> ModelEncode(texts[i])]

encode_query(query) == ModelEncode(query)

\* faiss.normalize_L2: scale to unit length (a zero vector is left alone)
normalize_L2(v) == [ang |-> v.ang, mag |-> IF v.mag = 0 THEN 0 ELSE 1]

\* cosine of k * 30 degrees, in thousandths
Cos30(k) ==
    CASE k = 0 -> 1000
      [] k \in {1, 11} -> 866
      [] k \in {2, 10} -> 500
      [] k \in {3, 9} -> 0
      [] k \in {4, 8} -> -500
      [] k \in {5, 7} -> -866
      [] k = 6 -> -1000

\* IndexFlatIP metric: the inner product
InnerProduct(u, v) == u.mag * v.mag * Cos30((u.ang - v.ang + 12) % 12)

(***************************************************************************)
(* FAISSVectorStore.                                                       *)
(***************************************************************************)
\* __init__: an empty inner-product index and an empty chunk list
NewStore == [index |-> <<>>, documents |-> <<>>]

ntotal(index) == Len(index)

Min(a, b) == IF a <= b THEN a ELSE b

\* position i ranks before position j for query vector qv
RanksBefore(index, qv, i, j) ==
    \/ InnerProduct(qv, index[i]) > InnerProduct(qv, index[j])
    \/ InnerProduct(qv, index[i]) = InnerProduct(qv, index[j]) /\ i < j

\* the position at rank r (1-based) of the index for qv
AtRank(index, qv, r) ==
    CHOOSE i \in 1..Len(index) :
        Cardinality({j \in 1..Len(index) : RanksBefore(index, qv, j, i)}) = r - 1

\* an index search that returns the first k positions in storage order
IndexSearchFirstK(index, qv, k) ==
    [r \in 1..k |-> [idx |-> r, score |-> InnerProduct(qv, index[r])]]

\* index.search(query_embedding, k): the k best positions, best first,
\* each with its score
IndexSearch(index, qv, k) ==
    [r \in 1..k |-> [idx |-> AtRank(index, qv, r),
                     score |-> InnerProduct(qv, index[AtRank(index, qv, r)])]]

\* a filter loop that keeps the hits scoring at most the threshold
RECURSIVE FilterHitsBelow(_, _, _)
FilterHitsBelow(hits, documents, threshold) ==
    IF hits = <<>> THEN <<>>
    ELSE LET h == Head(hits)
             rest == FilterHitsBelow(Tail(hits), documents, threshold)
         IN  IF h.score <= threshold /\ h.idx <= Len(documents)
             THEN <<[doc |-> documents[h.idx], score |-> h.score]>> \o rest
             ELSE rest

\* the filter loop of search
RECURSIVE FilterHits(_, _, _)
FilterHits(hits, documents, threshold) ==
    IF hits = <<>> THEN <<>>
    ELSE LET h == Head(hits)
             rest == FilterHits(Tail(hits), documents, threshold)
         IN  IF h.score >= threshold /\ h.idx <= Len(documents)
             THEN <<[doc |-> documents[h.idx], score |-> h.score]>> \o rest
             ELSE rest

search(store, query, k, threshold) ==
    IF ntotal(store.index) = 0 THEN <<>>
    ELSE LET qv == normalize_L2(encode_query(query))
             hits == IndexSearch(store.index, qv, Min(k, ntotal(store.index)))
         IN  FilterHits(hits, store.documents, threshold)

\* an add_documents that replaces what the store holds
add_documentsReplaces(store, documents) ==
    IF documents = <<>> THEN store
    ELSE [index |-> [i \in 1..Len(documents) |->
                        normalize_L2(ModelEncode(documents[i].content))],
          documents |-> documents]

\* add_documents: embed, normalise, append to the index and to the chunk list
add_documents(store, documents) ==
    IF documents = <<>> THEN store
    ELSE LET texts == [i \in 1..Len(documents) |-> documents[i].content]
             embeddings == encode_documents(texts)
             normed == [i \in 1..Len(embeddings) |-> normalize_L2(embeddings[i])]
         IN  [index |-> store.index \o normed,
              documents |-> store.documents \o documents]

(***************************************************************************)
(* Persistence: two artifacts at the index path, "<path>.faiss" and        *)
(* "<path>.docs".  An artifact is Absent, Corrupt (present, unreadable) or *)
(* holds what the writer serialised.                                       *)
(***************************************************************************)
Absent == [state |-> "absent"]
Corrupt == [state |-> "corrupt"]

\* faiss.write_index: the flat index is written as its count and its vectors
write_index(index) == [state |-> "ok", ntotal |-> Len(index), xb |-> index]

\* faiss.read_index
read_index(file) == SubSeq(file.xb, 1, file.ntotal)

\* pickle.dump / pickle.load of the chunk list
pickle_dump(documents) == [state |-> "ok", objs |-> documents]

pickle_load(file) == file.objs

EmptyDisk == [faiss |-> Absent, docs |-> Absent]

\* where a save_index call may fail: nowhere, before or while writing the
\* vector artifact, before or while writing the chunk-list artifact
SaveFaults == {"ok", "faiss_open", "faiss_write", "docs_open", "docs_dump"}

\* save_index: the disk it leaves, and whether it raised
save_index(store, d, fault) ==
    CASE fault = "faiss_open"  -> [disk |-> d, raised |-> TRUE]
      [] fault = "faiss_write" -> [disk |-> [d EXCEPT !.faiss = Corrupt], raised |-> TRUE]
      [] fault = "docs_open"   ->
           [disk |-> [d EXCEPT !.faiss = write_index(store.index)], raised |-> TRUE]
      [] fault = "docs_dump"   ->
           [disk |-> [faiss |-> write_index(store.index), docs |-> Corrupt],
            raised |-> TRUE]
      [] OTHER ->
           [disk |-> [faiss |-> write_index(store.index),
                      docs |-> pickle_dump(store.documents)],
            raised |-> FALSE]

\* a load_index that reads the index and forgets the chunk list
load_indexIndexOnly(store, d) ==
    IF d.faiss.state # "ok" \/ d.docs.state # "ok"
    THEN [store |-> store, result |-> FALSE, raised |-> FALSE]
    ELSE [store |-> [store EXCEPT !.index = read_index(d.faiss)], result |-> TRUE,
          raised |-> FALSE]

\* the try block of load_index: the store it leaves and how it ends, with
\* a return value or with the exception of faiss.read_index or pickle.load
load_indexTry(store, d) ==
    IF d.faiss.state = "absent"
    THEN [store |-> store, kind |-> "return", value |-> FALSE]
    ELSE IF d.faiss.state = "corrupt"
    THEN [store |-> store, kind |-> "raise", value |-> FALSE]
    ELSE LET withIndex == [store EXCEPT !.index = read_index(d.faiss)]
         IN  IF d.docs.state = "absent"
             THEN [store |-> withIndex, kind |-> "return", value |-> FALSE]
             ELSE IF d.docs.state = "corrupt"
                  THEN [store |-> withIndex, kind |-> "raise", value |-> FALSE]
                  ELSE [store |-> [withIndex EXCEPT !.documents = pickle_load(d.docs)],
                        kind |-> "return", value |-> TRUE]

\* a load_index without its except clause
load_indexNoExcept(store, d) ==
    LET t == load_indexTry(store, d)
    IN  [store |-> t.store, result |-> t.value, raised |-> t.kind = "raise"]

\* load_index: the store it leaves, the value it returns, whether it raised
load_index(store, d) ==
    LET t == load_indexTry(store, d)
    IN  [store |-> t.store,
         result |-> IF t.kind = "raise" THEN FALSE ELSE t.value,
         raised |-> FALSE]

(***************************************************************************)
(* DocumentProcessor.load_documents, seen from the retriever: the source   *)
(* directory is missing (raises) or yields a list of chunks.               *)
(***************************************************************************)
Missing == [exists |-> FALSE]
Dir(chunks) == [exists |-> TRUE, chunks |-> chunks]

load_documents(src) ==
    IF ~src.exists THEN [raised |-> TRUE, chunks |-> <<>>]
    ELSE [raised |-> FALSE, chunks |-> src.chunks]

(***************************************************************************)
(* DocumentRetriever.                                                      *)
(***************************************************************************)
\* a build pipeline without the check for an empty chunk list
_build_vector_storeNoCheck(store, d, src, fault) ==
    LET loaded == load_documents(src)
    IN  IF loaded.raised
        THEN [store |-> store, disk |-> d, raised |-> TRUE,
              calls |-> <<"load_documents">>]
        ELSE LET added == add_documents(store, loaded.chunks)
                 sv == save_index(added, d, fault)
             IN  [store |-> added, disk |-> sv.disk, raised |-> sv.raised,
                  calls |-> <<"load_documents", "add_documents", "save_index">>]

\* a build pipeline that catches the error of save_index
_build_vector_storeSwallowsSave(store, d, src, fault) ==
    LET loaded == load_documents(src)
    IN  IF loaded.raised \/ loaded.chunks = <<>>
        THEN [store |-> store, disk |-> d, raised |-> TRUE,
              calls |-> <<"load_documents">>]
        ELSE LET added == add_documents(store, loaded.chunks)
                 sv == save_index(added, d, fault)
             IN  [store |-> added, disk |-> sv.disk, raised |-> FALSE,
                  calls |-> <<"load_documents", "add_documents", "save_index">>]

\* _build_vector_store on a store: the store and disk it leaves, the calls
\* it made on its collaborators, and whether it raised
_build_vector_store(store, d, src, fault) ==
    LET loaded == load_documents(src)
    IN  IF loaded.raised \/ loaded.chunks = <<>>
        THEN [store |-> store, disk |-> d, raised |-> TRUE,
              calls |-> <<"load_documents">>]
        ELSE LET added == add_documents(store, loaded.chunks)
                 sv == save_index(added, d, fault)
             IN  [store |-> added, disk |-> sv.disk, raised |-> sv.raised,
                  calls |-> <<"load_documents", "add_documents", "save_index">>]

\* a constructor that runs the build pipeline whatever load_index returned
DocumentRetrieverInitAlwaysBuilds(d, src, fault) ==
    LET ld == load_index(NewStore, d)
        b == _build_vector_store(ld.store, d, src, fault)
    IN  [store |-> b.store, disk |-> b.disk, raised |-> b.raised,
         calls |-> <<"load_index">> \o b.calls, loaded |-> ld.result,
         start |-> Len(ld.store.index)]

\* __init__ with _initialize_vector_store
DocumentRetrieverInit(d, src, fault) ==
    LET ld == load_index(NewStore, d)
    IN  IF ld.result
        THEN [store |-> ld.store, disk |-> d, raised |-> FALSE,
              calls |-> <<"load_index">>, loaded |-> TRUE,
              start |-> Len(ld.store.index)]
        ELSE LET b == _build_vector_store(ld.store, d, src, fault)
             IN  [store |-> b.store, disk |-> b.disk, raised |-> b.raised,
                  calls |-> <<"load_index">> \o b.calls, loaded |-> FALSE,
                  start |-> Len(ld.store.index)]

\* an optional numeric argument: left out (None), or given
NoArg == [given |-> FALSE]
Arg(n) == [given |-> TRUE, v |-> n]

\* "x or default" on a number: None and 0 both fall back to the default
OrDefault(x, default) == IF ~x.given \/ x.v = 0 THEN default ELSE x.v

\* an insertion that puts a result before those of equal score
RECURSIVE InsertByScoreBeforeTies(_, _)
InsertByScoreBeforeTies(sorted, r) ==
    IF sorted = <<>> THEN <<r>>
    ELSE IF Head(sorted).score > r.score
         THEN <<Head(sorted)>> \o InsertByScoreBeforeTies(Tail(sorted), r)
         ELSE <<r>> \o sorted

\* list.sort(key=score, reverse=True): stable, descending
RECURSIVE InsertByScore(_, _)
InsertByScore(sorted, r) ==
    IF sorted = <<>> THEN <<r>>
    ELSE IF Head(sorted).score >= r.score
         THEN <<Head(sorted)>> \o InsertByScore(Tail(sorted), r)
         ELSE <<r>> \o sorted

RECURSIVE SortByScoreDesc(_)
SortByScoreDesc(results) ==
    IF results = <<>> THEN <<>>
    ELSE InsertByScore(SortByScoreDesc(SubSeq(results, 1, Len(results) - 1)),
                       results[Len(results)])

\* the k and the threshold retrieve_relevant_context calls search with
SearchCall(max_chunks, threshold) ==
    [k |-> OrDefault(max_chunks, MAX_RELEVANT_CHUNKS),
     threshold |-> OrDefault(threshold, SIMILARITY_THRESHOLD)]

retrieve_relevant_context(store, query, max_chunks, threshold) ==
    LET call == SearchCall(max_chunks, threshold)
    IN  SortByScoreDesc(search(store, query, call.k, call.threshold))

\* a join with no separator
RECURSIVE JoinLinesNoSeparator(_)
JoinLinesNoSeparator(parts) ==
    IF parts = <<>> THEN ""
    ELSE parts[1] \o JoinLinesNoSeparator(Tail(parts))

\* "\n".join(parts)
RECURSIVE JoinLines(_)
JoinLines(parts) ==
    IF parts = <<>> THEN ""
    ELSE IF Len(parts) = 1 THEN parts[1]
    ELSE parts[1] \o "\n" \o JoinLines(Tail(parts))

get_context_string(store, query, max_chunks) ==
    LET relevant_docs == retrieve_relevant_context(store, query, max_chunks, NoArg)
    IN  IF relevant_docs = <<>> THEN "No relevant documentation found."
        ELSE JoinLines([i \in 1..Len(relevant_docs) |->
                 "Source " \o ToString(i) \o ": " \o relevant_docs[i].doc.source
                 \o "\n" \o relevant_docs[i].doc.content \o "\n"])

(***************************************************************************)
(* LLMClient.                                                              *)
(***************************************************************************)
max_retries == 5
base_delay == 1

\* the action values the system prompt names as valid
ActionEnum ==
    { "escalate_to_technical_team", "escalate_to_abuse_team",
      "escalate_to_billing_team", "escalate_to_management",
      "escalate_to_legal_team", "contact_customer_directly",
      "no_action_required" }

\* JSON values a response body may hold
JNull == [t |-> "null"]
JStr(s) == [t |-> "str", s |-> s]
JList(l) == [t |-> "list", l |-> l]
NoKey == [t |-> "nokey"]
JObj(a, r, x) == [t |-> "obj", answer |-> a, references |-> r, action_required |-> x]

AnswerValues == {NoKey, JNull, JStr("Your domain was suspended for abuse.")}
ReferencesValues ==
    {NoKey, JNull, JStr("policy.md"), JList(<<>>), JList(<<"policy.md: Suspension">>)}
ActionValues ==
    {NoKey, JNull, JStr("delete_account")} \cup {JStr(a) : a \in ActionEnum}

JsonValues ==
    {JNull, JStr("ok"), JList(<<>>)}
    \cup {JObj(a, r, x) : a \in AnswerValues, r \in ReferencesValues, x \in ActionValues}

\* message.content of a completion: None, text that is not JSON, or JSON text
Bodies ==
    {[form |-> "none"], [form |-> "text"]}
    \cup {[form |-> "json", data |-> v] : v \in JsonValues}

\* what one chat.completions.create call does: raise, or return a completion
ServiceExceptions == {"RateLimitError", "APITimeoutError", "Exception"}

ServiceResponses ==
    {[kind |-> "raise", exc |-> e] : e \in ServiceExceptions}
    \cup {[kind |-> "ok", body |-> b] : b \in Bodies}

\* the exception classes met here and their base classes
Bases(exc) ==
    CASE exc = "RateLimitError" -> {"RateLimitError", "APIError", "Exception"}
      [] exc = "APITimeoutError" -> {"APITimeoutError", "APIError", "Exception"}
      [] exc = "JSONDecodeError" -> {"JSONDecodeError", "ValueError", "Exception"}
      [] exc = "ValidationError" -> {"ValidationError", "ValueError", "Exception"}
      [] exc = "TypeError" -> {"TypeError", "Exception"}
      [] exc = "AttributeError" -> {"AttributeError", "Exception"}
      [] exc = "Exception" -> {"Exception"}
      [] OTHER -> {exc}

IsInstance(exc, cls) == cls \in Bases(exc)

Returned(v) == [kind |-> "return", value |-> v]
Raised(exc) == [kind |-> "raise", exc |-> exc]
Pending == [kind |-> "pending"]

\* json.loads(response_text)
json_loads(body) ==
    CASE body.form = "none" -> Raised("TypeError")
      [] body.form = "text" -> Raised("JSONDecodeError")
      [] OTHER -> Returned(body.data)

IsListOfStr(v) == v.t = "list"

\* TicketResponse(**response_data): three required fields, str / List[str] / str
TicketResponse(data) ==
    IF data.t # "obj" THEN Raised("TypeError")
    ELSE IF /\ data.answer.t = "str"
            /\ IsListOfStr(data.references)
            /\ data.action_required.t = "str"
         THEN Returned([answer |-> data.answer.s,
                        references |-> data.references.l,
                        action_required |-> data.action_required.s])
         ELSE Raised("ValidationError")

\* "references or []"
OrEmpty(references) ==
    IF references.isNone THEN <<>>
    ELSE IF references.l = <<>> THEN <<>> ELSE references.l

\* generate_response without its last except clause
HandleExceptionNoCatchAll(exc, references) ==
    IF IsInstance(exc, "JSONDecodeError") \/ IsInstance(exc, "RateLimitError")
    THEN Returned([answer |-> "I apologize, but I encountered an error processing your request. Please contact our support team directly for assistance.",
                   references |-> OrEmpty(references),
                   action_required |-> "escalate_to_technical_team"])
    ELSE Raised(exc)

\* generate_response whose JSON fallback forgets the references
HandleExceptionDropRefs(exc, references) ==
    IF IsInstance(exc, "RateLimitError")
    THEN Returned([answer |-> "I'm currently experiencing high demand. Please try again in a few minutes or contact our support team for immediate assistance.",
                   references |-> OrEmpty(references),
                   action_required |-> "escalate_to_technical_team"])
    ELSE Returned([answer |-> "I'm experiencing technical difficulties. Please try again or contact our support team for immediate assistance.",
                   references |-> <<>>,
                   action_required |-> "escalate_to_technical_team"])

\* the except clauses of generate_response, in their order
HandleException(exc, references) ==
    IF IsInstance(exc, "JSONDecodeError")
    THEN Returned([answer |-> "I apologize, but I encountered an error processing your request. Please contact our support team directly for assistance.",
                   references |-> OrEmpty(references),
                   action_required |-> "escalate_to_technical_team"])
    ELSE IF IsInstance(exc, "RateLimitError")
    THEN Returned([answer |-> "I'm currently experiencing high demand. Please try again in a few minutes or contact our support team for immediate assistance.",
                   references |-> OrEmpty(references),
                   action_required |-> "escalate_to_technical_team"])
    ELSE IF IsInstance(exc, "Exception")
    THEN Returned([answer |-> "I'm experiencing technical difficulties. Please try again or contact our support team for immediate assistance.",
                   references |-> <<>>,
                   action_required |-> "escalate_to_technical_team"])
    ELSE Raised(exc)

\* the body of the try block after the completion came back
ParseAndValidate(body) ==
    LET parsed == json_loads(body)
    IN  IF parsed.kind = "raise" THEN parsed ELSE TicketResponse(parsed.value)

\* generate_response once _call_openai_with_backoff has returned or raised
Finish(result, references) ==
    IF result.kind = "raise" THEN HandleException(result.exc, references)
    ELSE LET r == ParseAndValidate(result.body)
         IN  IF r.kind = "raise" THEN HandleException(r.exc, references) ELSE r

\* 2 ** n
RECURSIVE Pow2(_)
Pow2(n) == IF n = 0 THEN 1 ELSE 2 * Pow2(n - 1)

\* the loop with a linear delay, base_delay * (2 * attempt)
BackoffStepLinear(att, resp) ==
    IF resp.kind = "ok" THEN [next |-> "return", result |-> resp]
    ELSE IF IsInstance(resp.exc, "RateLimitError")
    THEN IF att = max_retries - 1
         THEN [next |-> "raise", result |-> resp]
         ELSE [next |-> "sleep", delay |-> base_delay * (2 * att)]
    ELSE [next |-> "raise", result |-> resp]

\* the loop retrying on every exception
BackoffStepRetryAll(att, resp) ==
    IF resp.kind = "ok" THEN [next |-> "return", result |-> resp]
    ELSE IF att = max_retries - 1
         THEN [next |-> "raise", result |-> resp]
         ELSE [next |-> "sleep", delay |-> base_delay * Pow2(att)]

\* one iteration of the loop of _call_openai_with_backoff, on the response
\* of its create call: return it, raise, or sleep and go round again
BackoffStep(att, resp) ==
    IF resp.kind = "ok" THEN [next |-> "return", result |-> resp]
    ELSE IF IsInstance(resp.exc, "RateLimitError")
    THEN IF att = max_retries - 1
         THEN [next |-> "raise", result |-> resp]
         ELSE [next |-> "sleep", delay |-> base_delay * Pow2(att)]
    ELSE [next |-> "raise", result |-> resp]

(***************************************************************************)
(* The request in flight: LLMClient.generate_response, or                  *)
(* KnowledgeAssistant.resolve_ticket.  The assistant's retriever owns the  *)
(* store of instance 1.                                                    *)
(***************************************************************************)
Inst == {1, 2}

Tickets == {"Why was my domain suspended?", "How do I get a refund?", ""}

Contexts ==
    { "No relevant documentation found.",
      "Source 1: policy.md: Suspension\nDomains are suspended for abuse.\n" }

ReferenceArgs ==
    { None, List(<<>>), List(<<"policy.md: Suspension">>),
      List(<<"policy.md: Suspension", "billing.md: Refunds">>) }

NoRequest == [ticket_text |-> "", context |-> "", references |-> None]

\* the entry of generate_response: the prompt is built, the first call is due
Enter(how, ticket_text, context, references) ==
    /\ pc \in {"idle", "returned", "raised"}
    /\ pc' = "calling"
    /\ entry' = how
    /\ req' = [ticket_text |-> ticket_text, context |-> context,
               references |-> references]
    /\ invocations' = <<[ticket_text |-> ticket_text, context |-> context,
                         references |-> references]>>
    /\ attempt' = 0
    /\ log' = <<>>
    /\ backoff' = Pending
    /\ outcome' = Pending
    /\ UNCHANGED storeVars
    /\ UNCHANGED procVars

GenerateResponse(ticket_text, context, references) ==
    Enter("generate_response", ticket_text, context, references)

\* resolve_ticket on the assistant's DocumentRetriever: the context string
\* is built, then self.retriever.get_references raises AttributeError, the
\* class having no such method; the exception leaves resolve_ticket before
\* generate_response is called
ResolveTicket(ticket_text) ==
    /\ pc \in {"idle", "returned", "raised"}
    /\ pc' = "raised"
    /\ entry' = "resolve_ticket"
    /\ req' = [ticket_text |-> ticket_text,
               context |-> get_context_string(stores[1], ticket_text, NoArg),
               references |-> None]
    /\ invocations' = <<>>
    /\ attempt' = 0
    /\ log' = <<>>
    /\ backoff' = Pending
    /\ outcome' = Raised("AttributeError")
    /\ UNCHANGED storeVars
    /\ UNCHANGED procVars

\* one chat.completions.create call and the code that runs on its response:
\* generate_response returns, or the loop sleeps and is about to call again.
\* A loop that runs out returns None, which generate_response cannot
\* subscript.
CreateCompletion(resp) ==
    /\ pc = "calling"
    /\ LET step == BackoffStep(attempt, resp)
           got == IF resp.kind = "ok" THEN "ok" ELSE resp.exc
           call == [ev |-> "call", n |-> attempt, got |-> got]
       IN  IF step.next = "sleep"
           THEN /\ log' = log \o <<call, [ev |-> "sleep", n |-> step.delay,
                                          got |-> "slept"]>>
                /\ attempt' = attempt + 1
                /\ IF attempt + 1 < max_retries
                   THEN /\ pc' = "calling"
                        /\ UNCHANGED <<backoff, outcome>>
                   ELSE /\ pc' = "returned"
                        /\ backoff' = Raised("AttributeError")
                        /\ outcome' = HandleException("AttributeError", req.references)
           ELSE /\ log' = Append(log, call)
                /\ pc' = "returned"
                /\ backoff' = step.result
                /\ outcome' = Finish(step.result, req.references)
                /\ UNCHANGED attempt
    /\ UNCHANGED <<entry, req, invocations>>
    /\ UNCHANGED storeVars
    /\ UNCHANGED procVars

(***************************************************************************)
(* Store and retriever operations on the instances.                        *)
(***************************************************************************)
\* the chunk lists add_documents is called with
Batches == {<<>>, <<c1>>, <<c2, c3>>}

\* the document sources a run may have
Corpora == {Missing, Dir(<<>>), Dir(<<c1>>), Dir(<<c1, c2>>)}

NoOp == [name |-> "none", inst |-> 0, calls |-> <<>>, raised |-> FALSE,
         result |-> FALSE, warm |-> FALSE, prev |-> "none", sizeBefore |-> 0,
         added |-> 0, saveFault |-> "none"]

\* no DocumentProcessor call
NoProc == [name |-> "none", pc |-> "none", lines |-> <<>>, content |-> <<>>,
           file |-> <<>>, sections |-> <<>>,
           text |-> <<>>, max_length |-> 0, overlap |-> 0, start |-> 0,
           chunks |-> <<>>, exists |-> TRUE, files |-> <<>>, done |-> 0,
           docs |-> <<>>]

\* no query operation yet
NoLookup == [name |-> "none", inst |-> 0, query |-> "", max_chunks |-> NoArg,
             threshold |-> NoArg, k |-> 0, t |-> 0, found |-> <<>>,
             results |-> <<>>, text |-> "", refs |-> <<>>]

NoMirror == [from |-> 0, ok |-> FALSE]

NotSaved == [how |-> "none", by |-> 0]

\* instance i changed: nobody mirrors it any more, and the disk no longer
\* holds its state
Forget(m, i) == [j \in Inst |-> IF j = i \/ m[j].from = i THEN NoMirror ELSE m[j]]

Unsave(sv, i) == IF sv.by = i THEN [sv EXCEPT !.by = 0] ELSE sv

\* FAISSVectorStore(index_path=...)
CreateStore(i) ==
    /\ stores' = [stores EXCEPT ![i] = NewStore]
    /\ retr' = [retr EXCEPT ![i] = FALSE]
    /\ op' = NoOp
    /\ mirror' = Forget(mirror, i)
    /\ saved' = Unsave(saved, i)
    /\ UNCHANGED <<disk, corpus>>
    /\ lookup' = NoLookup
    /\ UNCHANGED genVars
    /\ UNCHANGED procVars

AddDocuments(i, documents) ==
    /\ Len(stores[i].index) + Len(documents) <= MaxDocs
    /\ Len(stores[i].documents) + Len(documents) <= MaxDocs
    /\ stores' = [stores EXCEPT ![i] = add_documents(stores[i], documents)]
    /\ op' = NoOp
    /\ mirror' = IF documents = <<>> THEN mirror ELSE Forget(mirror, i)
    /\ saved' = IF documents = <<>> THEN saved ELSE Unsave(saved, i)
    /\ lookup' = NoLookup
    /\ UNCHANGED <<disk, corpus, retr>>
    /\ UNCHANGED genVars
    /\ UNCHANGED procVars

SaveIndex(i, fault) ==
    LET sv == save_index(stores[i], disk, fault)
    IN  /\ disk' = sv.disk
        /\ op' = NoOp
        /\ saved' = IF ~sv.raised THEN [how |-> "save", by |-> i]
                    ELSE IF sv.disk = disk THEN saved ELSE NotSaved
        /\ lookup' = NoLookup
        /\ UNCHANGED <<stores, corpus, retr, mirror>>
        /\ UNCHANGED genVars
        /\ UNCHANGED procVars

LoadIndex(i) ==
    LET ld == load_index(stores[i], disk)
    IN  /\ stores' = [stores EXCEPT ![i] = ld.store]
        /\ op' = [NoOp EXCEPT !.name = "load_index", !.inst = i,
                              !.result = ld.result, !.raised = ld.raised]
        /\ mirror' = IF saved.by \notin {0, i}
                     THEN [Forget(mirror, i) EXCEPT
                              ![i] = [from |-> saved.by, ok |-> ld.result]]
                     ELSE IF ld.store = stores[i] THEN mirror
                     ELSE Forget(mirror, i)
        /\ saved' = IF ld.store = stores[i] THEN saved ELSE Unsave(saved, i)
        /\ lookup' = NoLookup
        /\ UNCHANGED <<disk, corpus, retr>>
        /\ UNCHANGED genVars
        /\ UNCHANGED procVars

\* the record of a construction r of instance i: fault is where its
\* save_index was to fail, warm whether the disk held a built index
Constructed(r, i, fault, warm) ==
    [NoOp EXCEPT !.name = "construct", !.inst = i,
                 !.calls = r.calls, !.raised = r.raised,
                 !.result = r.loaded,
                 !.warm = warm,
                 !.sizeBefore = r.start,
                 !.added = Len(r.store.index) - r.start,
                 !.saveFault = IF r.calls[Len(r.calls)] = "save_index"
                               THEN fault ELSE "none"]

\* retriever = DocumentRetriever(docs_path, vector_store_path), assigned to
\* instance i when the constructor returns
ConstructRetriever(i, fault) ==
    LET r == DocumentRetrieverInit(disk, corpus, fault)
        built == ~r.raised /\ Len(r.calls) > 1
    IN  /\ Len(r.store.index) <= MaxIndex
        /\ stores' = IF r.raised THEN stores ELSE [stores EXCEPT ![i] = r.store]
        /\ retr' = IF r.raised THEN retr ELSE [retr EXCEPT ![i] = TRUE]
        /\ disk' = r.disk
        /\ op' = Constructed(r, i, fault, saved.how = "build")
        /\ mirror' = IF r.raised THEN mirror ELSE Forget(mirror, i)
        /\ saved' = IF built THEN [how |-> "build", by |-> i]
                    ELSE IF r.disk # disk THEN NotSaved
                    ELSE IF r.raised THEN saved ELSE Unsave(saved, i)
        /\ lookup' = NoLookup
        /\ UNCHANGED corpus
        /\ UNCHANGED genVars
        /\ UNCHANGED procVars

\* retriever._build_vector_store() on a constructed retriever: the build
\* pipeline run again, on the store the retriever holds
BuildVectorStore(i, fault) ==
    LET r == _build_vector_store(stores[i], disk, corpus, fault)
    IN  /\ retr[i]
        /\ Len(r.store.index) <= MaxIndex
        /\ Len(r.store.documents) <= MaxIndex
        /\ stores' = [stores EXCEPT ![i] = r.store]
        /\ disk' = r.disk
        /\ op' = [NoOp EXCEPT !.name = "_build_vector_store", !.inst = i,
                              !.calls = r.calls, !.raised = r.raised,
                              !.prev = IF op.inst = i THEN op.name ELSE "none",
                              !.sizeBefore = Len(stores[i].index),
                              !.added = Len(r.store.index) - Len(stores[i].index),
                              !.saveFault = IF r.calls[Len(r.calls)] = "save_index"
                                            THEN fault ELSE "none"]
        /\ mirror' = IF r.store = stores[i] THEN mirror ELSE Forget(mirror, i)
        /\ saved' = IF r.calls = <<"load_documents">> THEN saved
                    ELSE IF ~r.raised THEN [how |-> "build", by |-> i]
                    ELSE IF r.disk # disk THEN NotSaved ELSE Unsave(saved, i)
        /\ lookup' = NoLookup
        /\ UNCHANGED <<corpus, retr>>
        /\ UNCHANGED genVars
        /\ UNCHANGED procVars

(***************************************************************************)
(* DocumentProcessor.  A text is a sequence of characters.                 *)
(***************************************************************************)
Max(a, b) == IF a >= b THEN a ELSE b

\* the characters of the texts
Alphabet == {"a", ".", " "}

\* what str.strip() removes, and what ends a sentence for chunk_text
Whitespace == {" ", "\n", "\t", "\r"}

SentenceEnd == {".", "!", "?", "\n"}

\* how far back from the cut chunk_text looks for a sentence end
lookback == 100

\* str.strip()
strip(s) ==
    LET keep == {i \in 1..Len(s) : s[i] \notin Whitespace}
    IN  IF keep = {} THEN <<>>
        ELSE SubSeq(s, CHOOSE i \in keep : \A j \in keep : i <= j,
                       CHOOSE i \in keep : \A j \in keep : i >= j)

\* s[a:b] with Python's treatment of negative and overlong bounds
PySlice(s, a, b) ==
    LET n == Len(s)
        lo == IF a < 0 THEN Max(a + n, 0) ELSE Min(a, n)
        hi == IF b < 0 THEN Max(b + n, 0) ELSE Min(b, n)
    IN  IF lo < hi THEN SubSeq(s, lo + 1, hi) ELSE <<>>

\* s[i], a negative i counting from the end
PyIndex(s, i) == IF i < 0 THEN s[i + Len(s) + 1] ELSE s[i + 1]

\* a cut one character past the character after the sentence end
ChunkEndPastBoundary(text, start, max_length) ==
    LET end == start + max_length
        low == Max(start + max_length - lookback, start)
        found == {i \in (low + 1)..end : PyIndex(text, i) \in SentenceEnd}
    IN  IF end < Len(text) /\ found # {}
        THEN (CHOOSE i \in found : \A j \in found : i >= j) + 2
        ELSE end

\* the end of the chunk that starts at start: start + max_length, or just
\* after the last sentence end found looking back from there
ChunkEnd(text, start, max_length) ==
    LET end == start + max_length
        low == Max(start + max_length - lookback, start)
        found == {i \in (low + 1)..end : PyIndex(text, i) \in SentenceEnd}
    IN  IF end < Len(text) /\ found # {}
        THEN (CHOOSE i \in found : \A j \in found : i >= j) + 1
        ELSE end

\* the inputs of chunk_text
RECURSIVE TextsOfLength(_)
TextsOfLength(n) ==
    IF n = 0 THEN {<<>>}
    ELSE {Append(t, c) : t \in TextsOfLength(n - 1), c \in Alphabet}

ChunkTexts == UNION {TextsOfLength(n) : n \in 0..MaxText}

ChunkJobs ==
    {j \in {[NoProc EXCEPT !.name = "chunk_text", !.pc = "call", !.text = t,
                           !.max_length = m, !.overlap = o] :
               t \in ChunkTexts, m \in 1..MaxLength, o \in 0..(MaxLength - 1)} :
        j.overlap < j.max_length}

\* chunk_text up to the loop: a text that fits is returned as one chunk
ChunkTextCall ==
    /\ proc.name = "chunk_text"
    /\ proc.pc = "call"
    /\ proc' = IF Len(proc.text) <= proc.max_length
               THEN [proc EXCEPT !.pc = "returned", !.chunks = <<proc.text>>]
               ELSE [proc EXCEPT !.pc = "loop", !.start = 0, !.chunks = <<>>]
    /\ UNCHANGED genVars
    /\ UNCHANGED storeVars

\* one iteration of the while loop of chunk_text
ChunkTextIter ==
    /\ proc.name = "chunk_text"
    /\ proc.pc = "loop"
    /\ Len(proc.chunks) < MaxChunks
    /\ LET end == ChunkEnd(proc.text, proc.start, proc.max_length)
           chunk == strip(PySlice(proc.text, proc.start, end))
           next == end - proc.overlap
       IN  proc' = [proc EXCEPT
                      !.chunks = IF chunk # <<>> THEN Append(@, chunk) ELSE @,
                      !.start = next,
                      !.pc = IF next >= Len(proc.text) THEN "returned" ELSE "loop"]
    /\ UNCHANGED genVars
    /\ UNCHANGED storeVars

\* content.split('\n')
RECURSIVE split(_)
split(content) ==
    LET nl == {i \in 1..Len(content) : content[i] = "\n"}
    IN  IF nl = {} THEN <<content>>
        ELSE LET i == CHOOSE i \in nl : \A j \in nl : i <= j
             IN  <<SubSeq(content, 1, i - 1)>>
                     \o split(SubSeq(content, i + 1, Len(content)))

\* how many characters at the start of s are in the set C
RECURSIVE Leading(_, _)
Leading(s, C) ==
    IF s # <<>> /\ Head(s) \in C THEN 1 + Leading(Tail(s), C) ELSE 0

\* the deepest heading the pattern accepts
MaxHeadingLevel == 6

NoMatch == [matched |-> FALSE, title |-> <<>>]

\* a pattern that accepts any number of '#'
heading_matchAnyLevel(line) ==
    LET n == Leading(line, {"#"})
        w == Leading(SubSeq(line, n + 1, Len(line)), Whitespace)
        rest == SubSeq(line, n + w + 1, Len(line))
    IN  IF n < 1 \/ w < 1 THEN NoMatch
        ELSE IF rest # <<>> THEN [matched |-> TRUE, title |-> rest]
        ELSE IF w >= 2 THEN [matched |-> TRUE, title |-> <<line[Len(line)]>>]
        ELSE NoMatch

\* re.match(r'^(#{1,6})\s+(.+)$', line) on a line without a newline: the '#'
\* at the start (1 to 6 of them, and no further '#'), then whitespace, then
\* at least one character; group 2 is what follows the whitespace, or the
\* last whitespace character when nothing follows two or more of them
heading_match(line) ==
    LET n == Leading(line, {"#"})
        w == Leading(SubSeq(line, n + 1, Len(line)), Whitespace)
        rest == SubSeq(line, n + w + 1, Len(line))
    IN  IF n < 1 \/ n > MaxHeadingLevel \/ w < 1 THEN NoMatch
        ELSE IF rest # <<>> THEN [matched |-> TRUE, title |-> rest]
        ELSE IF w >= 2 THEN [matched |-> TRUE, title |-> <<line[Len(line)]>>]
        ELSE NoMatch

\* the heading of the text before the first heading
Introduction == <<"I", "n", "t", "r", "o", "d", "u", "c", "t", "i", "o", "n">>

Section(heading, content) == [title |-> heading, content |-> content]

\* sections, with the section in progress added if it has content
SaveSection(sections, current_heading, current_section) ==
    IF strip(current_section) # <<>>
    THEN Append(sections, Section(current_heading, current_section))
    ELSE sections

\* the for loop of _split_by_headings over the lines still to read
RECURSIVE SplitLoop(_, _, _, _)
SplitLoop(lines, sections, current_heading, current_section) ==
    IF lines = <<>>
    THEN SaveSection(sections, current_heading, current_section)
    ELSE LET line == Head(lines)
             heading == heading_match(line)
         IN  IF heading.matched
             THEN SplitLoop(Tail(lines),
                            SaveSection(sections, current_heading, current_section),
                            heading.title, <<>>)
             ELSE SplitLoop(Tail(lines), sections, current_heading,
                            current_section \o line \o <<"\n">>)

_split_by_headings(content) ==
    SplitLoop(split(content), <<>>, Introduction, <<>>)

\* the DocumentChunk _process_file makes of a section of the file called name
SectionChunk(name, section) ==
    LET stripped_content == strip(section.content)
    IN  [content |-> stripped_content,
         source |-> name \o <<":", " ">> \o section.title,
         metadata |-> [file |-> name, section |-> section.title,
                       length |-> Len(stripped_content)]]

\* _process_file on a file that could be read
_process_file(name, content) ==
    LET sections == SelectSeq(_split_by_headings(content),
                              LAMBDA s : strip(s.content) # <<>>)
    IN  [i \in 1..Len(sections) |-> SectionChunk(name, sections[i])]

\* the lines files are made of
SampleLines ==
    { <<"#", " ", "T">>,
      <<"#", "#", "#", "#", "#", "#", " ", "A">>,
      <<"#", "#", "#", "#", "#", "#", "#", " ", "a">>,
      <<"#", " ", " ">>,
      <<"#", "a">>,
      <<"a">>,
      <<" ">> }

\* the lines joined by newlines: the text of a file
RECURSIVE FileText(_)
FileText(ls) ==
    IF Len(ls) = 1 THEN Head(ls)
    ELSE Head(ls) \o <<"\n">> \o FileText(Tail(ls))

RECURSIVE LineLists(_)
LineLists(n) ==
    IF n = 0 THEN {<<>>}
    ELSE {Append(ls, l) : ls \in LineLists(n - 1), l \in SampleLines}

FileName == <<"f", ".", "m", "d">>

FileJobs ==
    {[NoProc EXCEPT !.name = "_process_file", !.pc = "call", !.file = FileName,
                    !.lines = ls, !.content = FileText(ls)] :
        ls \in UNION {LineLists(n) : n \in 1..MaxLines}}

\* _process_file on a readable file: the sections of its text and the chunks
ProcessFile ==
    /\ proc.name = "_process_file"
    /\ proc.pc = "call"
    /\ proc' = [proc EXCEPT !.pc = "returned",
                            !.sections = _split_by_headings(proc.content),
                            !.docs = _process_file(proc.file, proc.content)]
    /\ UNCHANGED genVars
    /\ UNCHANGED storeVars

\* the *.md files a directory may hold; open() or read() fails on the second
File(name, readable, content) ==
    [name |-> name, readable |-> readable, content |-> content]

Files ==
    { File(<<"a", ".", "m", "d">>, TRUE,
           <<"#", " ", "T", "\n", "a">>),
      File(<<"b", ".", "m", "d">>, FALSE, <<>>),
      File(<<"c", ".", "m", "d">>, TRUE, <<"a", "\n">>) }

\* the orders glob may list up to n of the files in
RECURSIVE Listings(_)
Listings(n) ==
    IF n = 0 THEN {<<>>}
    ELSE Listings(n - 1) \cup
         {Append(fs, f) : fs \in {l \in Listings(n - 1) : Len(l) = n - 1},
                          f \in Files}

DirJobs ==
    {[NoProc EXCEPT !.name = "load_documents", !.pc = "call", !.files = fs] :
        fs \in {l \in Listings(MaxFiles) :
                  \A i, j \in 1..Len(l) : l[i] = l[j] => i = j}}
    \cup {[NoProc EXCEPT !.name = "load_documents", !.pc = "call",
                         !.exists = FALSE]}

\* load_documents up to the loop: a missing directory raises ValueError
LoadDocumentsCall ==
    /\ proc.name = "load_documents"
    /\ proc.pc = "call"
    /\ proc' = IF ~proc.exists
               THEN [proc EXCEPT !.pc = "raised"]
               ELSE [proc EXCEPT !.pc = "loop", !.done = 0, !.docs = <<>>]
    /\ UNCHANGED genVars
    /\ UNCHANGED storeVars

\* one iteration of the for loop of load_documents: the exception of a file
\* that cannot be read leaves _process_file and load_documents
LoadDocumentsFile ==
    /\ proc.name = "load_documents"
    /\ proc.pc = "loop"
    /\ proc.done < Len(proc.files)
    /\ LET file_path == proc.files[proc.done + 1]
       IN  proc' = IF ~file_path.readable
                   THEN [proc EXCEPT !.pc = "raised"]
                   ELSE [proc EXCEPT
                           !.done = @ + 1,
                           !.docs = @ \o _process_file(file_path.name,
                                                       file_path.content)]
    /\ UNCHANGED genVars
    /\ UNCHANGED storeVars

\* the end of the loop: load_documents returns the chunks
LoadDocumentsReturn ==
    /\ proc.name = "load_documents"
    /\ proc.pc = "loop"
    /\ proc.done = Len(proc.files)
    /\ proc' = [proc EXCEPT !.pc = "returned"]
    /\ UNCHANGED genVars
    /\ UNCHANGED storeVars

(***************************************************************************)
(* Query operations: a search on store i, and the three retrieval methods  *)
(* of a DocumentRetriever whose vector store is store i.                   *)
(***************************************************************************)
\* the chunk lists add_documents is called with before queries
QueryBatches == Batches \cup {<<c4, c1>>}

\* the thresholds a caller may pass
Thresholds == {-1000, 0, 500, 700, 866, 1000}

\* the optional arguments a caller may pass
MaxChunksArgs == {NoArg} \cup {Arg(n) : n \in 0..MaxK}

ThresholdArgs == {NoArg} \cup {Arg(t) : t \in Thresholds}

\* vector_store.search(query, k, threshold)
Search(i, query, k, threshold) ==
    /\ lookup' = [NoLookup EXCEPT !.name = "search", !.inst = i,
                                  !.query = query, !.k = k, !.t = threshold,
                                  !.results = search(stores[i], query, k, threshold)]
    /\ UNCHANGED <<stores, disk, corpus, retr, op, mirror, saved>>
    /\ UNCHANGED genVars
    /\ UNCHANGED procVars

\* retriever.retrieve_relevant_context(query, max_chunks, threshold); k and t
\* are what the vector store's search was called with
RetrieveRelevantContext(i, query, max_chunks, threshold) ==
    /\ lookup' = [NoLookup EXCEPT
                     !.name = "retrieve_relevant_context", !.inst = i,
                     !.query = query, !.max_chunks = max_chunks,
                     !.threshold = threshold,
                     !.k = SearchCall(max_chunks, threshold).k,
                     !.t = SearchCall(max_chunks, threshold).threshold,
                     !.found = search(stores[i], query,
                                      SearchCall(max_chunks, threshold).k,
                                      SearchCall(max_chunks, threshold).threshold),
                     !.results = retrieve_relevant_context(stores[i], query,
                                                           max_chunks, threshold)]
    /\ UNCHANGED <<stores, disk, corpus, retr, op, mirror, saved>>
    /\ UNCHANGED genVars
    /\ UNCHANGED procVars

\* what a stubbed vector store's search may return: chunks with scores, in
\* any order, equal scores included
MockScores == {500, 900}

RECURSIVE MockResults(_)
MockResults(n) ==
    IF n = 0 THEN {<<>>}
    ELSE MockResults(n - 1) \cup
         {Append(rs, [doc |-> d, score |-> sc]) :
             rs \in {l \in MockResults(n - 1) : Len(l) = n - 1},
             d \in {c1, c2, c3, c4}, sc \in MockScores}

\* a retriever whose vector store is stubbed, about to be asked for context
MockJobs ==
    {[NoLookup EXCEPT !.name = "search_stubbed", !.inst = 1,
                      !.query = "test query", !.found = f] :
        f \in {l \in MockResults(MaxFound) :
                  \A a, b \in 1..Len(l) : l[a].doc = l[b].doc => a = b}}

\* retriever.retrieve_relevant_context(query) on a retriever whose vector
\* store is stubbed: search returns found
RetrieveRelevantContextMocked ==
    /\ lookup.name = "search_stubbed"
    /\ lookup' = [lookup EXCEPT
                     !.name = "retrieve_relevant_context_mocked",
                     !.k = SearchCall(NoArg, NoArg).k,
                     !.t = SearchCall(NoArg, NoArg).threshold,
                     !.results = SortByScoreDesc(lookup.found)]
    /\ UNCHANGED <<stores, disk, corpus, retr, op, mirror, saved>>
    /\ UNCHANGED genVars
    /\ UNCHANGED procVars

\* retriever.get_context_string(query, max_chunks)
GetContextString(i, query, max_chunks) ==
    /\ lookup' = [NoLookup EXCEPT
                     !.name = "get_context_string", !.inst = i,
                     !.query = query, !.max_chunks = max_chunks,
                     !.text = get_context_string(stores[i], query, max_chunks)]
    /\ UNCHANGED <<stores, disk, corpus, retr, op, mirror, saved>>
    /\ UNCHANGED genVars
    /\ UNCHANGED procVars

(***************************************************************************)
(* Specifications.                                                         *)
(***************************************************************************)
GenIdle ==
    /\ pc = "idle"
    /\ entry = "none"
    /\ req = NoRequest
    /\ attempt = 0
    /\ log = <<>>
    /\ invocations = <<>>
    /\ backoff = Pending
    /\ outcome = Pending

\* Spec: a constructed KnowledgeAssistant serving requests.  Its retriever
\* (instance 1) was constructed over a document source that yields chunks:
\* on an empty index path, where it built the index and saved it, or on the
\* index path a construction before it left, where it loaded the index.
Init ==
    /\ GenIdle
    /\ corpus \in {src \in Corpora : src.exists /\ src.chunks # <<>>}
    /\ \E warm \in BOOLEAN :
          LET first == DocumentRetrieverInit(EmptyDisk, corpus, "ok")
              r == IF warm THEN DocumentRetrieverInit(first.disk, corpus, "ok")
                   ELSE first
          IN  /\ stores = [i \in Inst |-> IF i = 1 THEN r.store ELSE NewStore]
              /\ disk = r.disk
              /\ op = Constructed(r, 1, "ok", warm)
              /\ saved = [how |-> "build", by |-> IF warm THEN 0 ELSE 1]
    /\ retr = [i \in Inst |-> i = 1]
    /\ mirror = [i \in Inst |-> NoMirror]
    /\ lookup = NoLookup
    /\ proc = NoProc

Next ==
    \/ \E t \in Tickets, c \in Contexts, r \in ReferenceArgs : GenerateResponse(t, c, r)
    \/ \E t \in Tickets : ResolveTicket(t)
    \/ \E resp \in ServiceResponses : CreateCompletion(resp)

Spec == Init /\ [][Next]_vars

\* SpecStore: store instances over one index path, from an empty disk.
InitStore ==
    /\ GenIdle
    /\ corpus = Missing
    /\ stores = [i \in Inst |-> [index |-> <<>>, documents |-> <<>>]]
    /\ disk = EmptyDisk
    /\ retr = [i \in Inst |-> FALSE]
    /\ op = NoOp
    /\ mirror = [i \in Inst |-> NoMirror]
    /\ saved = NotSaved
    /\ lookup = NoLookup
    /\ proc = NoProc

NextStore ==
    \/ \E i \in Inst : CreateStore(i)
    \/ \E i \in Inst, b \in Batches : AddDocuments(i, b)
    \/ \E i \in Inst, f \in SaveFaults : SaveIndex(i, f)
    \/ \E i \in Inst : LoadIndex(i)

SpecStore == InitStore /\ [][NextStore]_vars

\* SpecRetriever: retrievers constructed over one index path and one document
\* source, from an empty disk, and their build pipeline run again.
InitRetriever ==
    /\ GenIdle
    /\ corpus \in Corpora
    /\ stores = [i \in Inst |-> [index |-> <<>>, documents |-> <<>>]]
    /\ disk = EmptyDisk
    /\ retr = [i \in Inst |-> FALSE]
    /\ op = NoOp
    /\ mirror = [i \in Inst |-> NoMirror]
    /\ saved = NotSaved
    /\ lookup = NoLookup
    /\ proc = NoProc

NextRetriever ==
    \/ \E i \in Inst, f \in SaveFaults : ConstructRetriever(i, f)
    \/ \E i \in Inst, f \in SaveFaults : BuildVectorStore(i, f)

SpecRetriever == InitRetriever /\ [][NextRetriever]_vars

\* SpecQuery: the store of instance 1 filled by add_documents, and queries
\* on it and on a retriever over it.
InitQuery ==
    /\ GenIdle
    /\ corpus = Missing
    /\ stores = [i \in Inst |-> [index |-> <<>>, documents |-> <<>>]]
    /\ disk = EmptyDisk
    /\ retr = [i \in Inst |-> FALSE]
    /\ op = NoOp
    /\ mirror = [i \in Inst |-> NoMirror]
    /\ saved = NotSaved
    /\ lookup = NoLookup
    /\ proc = NoProc

NextQuery ==
    \/ \E b \in QueryBatches : AddDocuments(1, b)
    \/ \E q \in Queries, k \in 1..MaxK, t \in Thresholds : Search(1, q, k, t)
    \/ \E q \in Queries, m \in MaxChunksArgs, t \in ThresholdArgs :
          RetrieveRelevantContext(1, q, m, t)
    \/ \E q \in Queries, m \in MaxChunksArgs : GetContextString(1, q, m)

SpecQuery == InitQuery /\ [][NextQuery]_vars

\* SpecProcessor: one DocumentProcessor call on inputs drawn at the start.
InitProcessor ==
    /\ GenIdle
    /\ corpus = Missing
    /\ stores = [i \in Inst |-> [index |-> <<>>, documents |-> <<>>]]
    /\ disk = EmptyDisk
    /\ retr = [i \in Inst |-> FALSE]
    /\ op = NoOp
    /\ mirror = [i \in Inst |-> NoMirror]
    /\ saved = NotSaved
    /\ lookup = NoLookup
    /\ proc \in ChunkJobs \cup FileJobs \cup DirJobs

NextProcessor ==
    \/ ChunkTextCall
    \/ ChunkTextIter
    \/ ProcessFile
    \/ LoadDocumentsCall
    \/ LoadDocumentsFile
    \/ LoadDocumentsReturn

SpecProcessor == InitProcessor /\ [][NextProcessor]_vars

\* SpecSort: retrieve_relevant_context over a stubbed search whose results
\* are drawn at the start.
InitSort ==
    /\ GenIdle
    /\ corpus = Missing
    /\ stores = [i \in Inst |-> [index |-> <<>>, documents |-> <<>>]]
    /\ disk = EmptyDisk
    /\ retr = [i \in Inst |-> i = 1]
    /\ op = NoOp
    /\ mirror = [i \in Inst |-> NoMirror]
    /\ saved = NotSaved
    /\ lookup \in MockJobs
    /\ proc = NoProc

NextSort == RetrieveRelevantContextMocked

SpecSort == InitSort /\ [][NextSort]_vars

\* SpecSequential: one vector store at one index path and the retriever
\* constructed over it, called by one caller: every call runs to its end
\* before the next starts.  Nothing in the repository starts a thread, and
\* the coroutines of api/main.py call the assistant without awaiting.
InitSequential ==
    /\ GenIdle
    /\ corpus \in Corpora
    /\ stores = [i \in Inst |-> [index |-> <<>>, documents |-> <<>>]]
    /\ disk = EmptyDisk
    /\ retr = [i \in Inst |-> FALSE]
    /\ op = NoOp
    /\ mirror = [i \in Inst |-> NoMirror]
    /\ saved = NotSaved
    /\ lookup = NoLookup
    /\ proc = NoProc

NextSequential ==
    \/ \E f \in SaveFaults : ConstructRetriever(1, f)
    \/ \E f \in SaveFaults : BuildVectorStore(1, f)
    \/ \E b \in Batches : AddDocuments(1, b)
    \/ \E f \in SaveFaults : SaveIndex(1, f)
    \/ LoadIndex(1)
    \/ \E q \in Queries : Search(1, q, MAX_RELEVANT_CHUNKS, SIMILARITY_THRESHOLD)

SpecSequential == InitSequential /\ [][NextSequential]_vars

(***************************************************************************)
(* Properties of the generation client (Spec).                             *)
(***************************************************************************)
Escalate == "escalate_to_technical_team"

\* a value of the TicketResponse schema
IsTicketResponse(v) ==
    /\ DOMAIN v = {"answer", "references", "action_required"}
    /\ v.answer \in STRING
    /\ v.action_required \in STRING
    /\ \A i \in DOMAIN v.references : v.references[i] \in STRING
    /\ DOMAIN v.references = 1..Len(v.references)

\* the references as they were passed into the call
PassedReferences == IF req.references.isNone THEN <<>> ELSE req.references.l

\* the body of the completion is JSON text for an object with the three
\* required fields, each of the type the schema asks for
BodyIsValid(body) ==
    /\ body.form = "json"
    /\ body.data.t = "obj"
    /\ body.data.answer.t = "str"
    /\ body.data.references.t = "list"
    /\ body.data.action_required.t = "str"

\* the request failed: the service call raised, or its body is no valid answer
FailureOutcome == backoff.kind = "raise" \/ ~BodyIsValid(backoff.body)

\* C1: whatever the service does (success, rate limits, timeout, another
\* error, a body that does not parse, a body that fails the schema),
\* generate_response returns a TicketResponse and never raises, and in every
\* failure the action is escalate_to_technical_team.
C1_NeverRaises ==
    entry = "generate_response" =>
        /\ outcome.kind # "raise"
        /\ pc = "returned" =>
              /\ outcome.kind = "return"
              /\ IsTicketResponse(outcome.value)
              /\ FailureOutcome => outcome.value.action_required = Escalate

C1_Witness ==
    /\ pc = "returned"
    /\ backoff.kind = "ok"
    /\ backoff.body.form = "none"
    /\ outcome.kind = "return"
    /\ outcome.value.action_required = Escalate

ExpectedDelays == <<1, 2, 4, 8>>

\* C2: the retry schedule.  At most 5 calls; the events of a request are
\* call 0, wait 1, call 1, wait 2, call 2, wait 4, call 3, wait 8, call 4;
\* only a rate-limited call is followed by anything; the first successful
\* response is what the loop returns; five rate-limited calls end in the
\* rate-limit error being re-raised with no wait after the fifth.
C2_RetrySchedule ==
    /\ Len(log) <= 2 * max_retries - 1
    /\ \A i \in DOMAIN log :
          IF i % 2 = 1
          THEN log[i].ev = "call" /\ log[i].n = (i - 1) \div 2
          ELSE /\ log[i].ev = "sleep" /\ log[i].n = ExpectedDelays[i \div 2]
               /\ log[i - 1].got = "RateLimitError"
    /\ \A i \in DOMAIN log :
          (log[i].ev = "call" /\ i < Len(log)) => log[i].got = "RateLimitError"
    /\ (pc = "calling" /\ log # <<>>) => log[Len(log)].ev = "sleep"
    /\ pc = "returned" =>
          /\ log # <<>> /\ log[Len(log)].ev = "call"
          /\ log[Len(log)].got = "ok" => backoff.kind = "ok"
          /\ log[Len(log)].got = "RateLimitError" =>
                /\ Len(log) = 2 * max_retries - 1
                /\ backoff = Raised("RateLimitError")

C2_Witness ==
    /\ pc = "returned"
    /\ Len(log) = 9
    /\ log[9].got = "RateLimitError"
    /\ backoff = Raised("RateLimitError")

NonRateLimitErrors == {"APITimeoutError", "Exception"}

\* C3: a service call that fails with anything but a rate-limit error (a
\* timeout included), on whichever attempt, is the last event of the
\* request: no call and no wait follows, and generate_response returns the
\* fallback with escalate_to_technical_team and an empty references list.
C3_NoRetryOnOtherErrors ==
    \A i \in DOMAIN log :
        (log[i].ev = "call" /\ log[i].got \in NonRateLimitErrors) =>
            /\ i = Len(log)
            /\ pc = "returned"
            /\ outcome.kind = "return"
            /\ outcome.value.action_required = Escalate
            /\ outcome.value.references = <<>>

C3_Witness ==
    /\ pc = "returned"
    /\ Len(log) = 5
    /\ log[5].got = "APITimeoutError"
    /\ req.references = List(<<"policy.md: Suspension">>)
    /\ outcome.kind = "return"

\* C4: a body that does not parse as JSON yields the fallback with
\* escalate_to_technical_team and the references that were passed in (the
\* empty list when None was passed).
C4_UnparseableKeepsReferences ==
    (pc = "returned" /\ backoff.kind = "ok" /\ backoff.body.form = "text") =>
        /\ outcome.kind = "return"
        /\ outcome.value.action_required = Escalate
        /\ outcome.value.references = PassedReferences

C4_Witness ==
    /\ pc = "returned"
    /\ backoff.kind = "ok"
    /\ backoff.body.form = "text"
    /\ req.references = List(<<"policy.md: Suspension", "billing.md: Refunds">>)
    /\ outcome.kind = "return"

\* the parsed body is not an object, or lacks one of the required fields
LacksRequiredField(data) ==
    \/ data.t # "obj"
    \/ data.answer = NoKey
    \/ data.references = NoKey
    \/ data.action_required = NoKey

\* C5: a body that parses as JSON but is not an object or lacks a required
\* field yields the fallback with escalate_to_technical_team and the
\* references that were passed in.
C5_SchemaInvalidKeepsReferences ==
    (/\ pc = "returned"
     /\ backoff.kind = "ok"
     /\ backoff.body.form = "json"
     /\ LacksRequiredField(backoff.body.data)) =>
        /\ outcome.kind = "return"
        /\ outcome.value.action_required = Escalate
        /\ outcome.value.references = PassedReferences

\* C6: every returned TicketResponse carries one of the seven action values.
C6_ActionInClosedEnum ==
    (pc = "returned" /\ outcome.kind = "return") =>
        outcome.value.action_required \in ActionEnum

\* the references the retriever is to give for a query: the distinct sources
\* of the chunks it retrieves, first seen first
RECURSIVE DistinctSources(_, _)
DistinctSources(results, seen) ==
    IF results = <<>> THEN <<>>
    ELSE LET s == Head(results).doc.source
         IN  IF s \in seen THEN DistinctSources(Tail(results), seen)
             ELSE <<s>> \o DistinctSources(Tail(results), seen \cup {s})

ExpectedReferences(store, query) ==
    DistinctSources(retrieve_relevant_context(store, query, NoArg, NoArg), {})

\* C7: resolve_ticket takes the context string and the references of the
\* ticket text from the retriever, calls generate_response exactly once with
\* the ticket text and those two, and returns its TicketResponse; no outcome
\* of the generation service makes it raise.
C7_ResolveTicket ==
    entry = "resolve_ticket" =>
        /\ invocations =
              <<[ticket_text |-> req.ticket_text,
                 context |-> get_context_string(stores[1], req.ticket_text, NoArg),
                 references |-> List(ExpectedReferences(stores[1], req.ticket_text))]>>
        /\ outcome.kind # "raise"
        /\ pc = "returned" =>
              outcome.kind = "return" /\ IsTicketResponse(outcome.value)

(***************************************************************************)
(* Properties of the vector store (SpecStore).                             *)
(***************************************************************************)
\* the (source, score) pairs of a search, in the order returned
SourcesAndScores(store, q, k, t) ==
    LET r == search(store, q, k, t)
    IN  [i \in 1..Len(r) |-> <<r[i].doc.source, r[i].score>>]

\* C8: round trip.  Once store a has saved its index and store b has then
\* called load_index on that path, b got True, holds as many vectors and the
\* same chunk list as a, and answers every search as a does.
C8_RoundTrip ==
    \A b \in Inst :
        mirror[b].from # 0 =>
            LET a == mirror[b].from
            IN  /\ mirror[b].ok
                /\ Len(stores[b].index) = Len(stores[a].index)
                /\ stores[b].documents = stores[a].documents
                /\ \A q \in Queries, k \in 1..MaxK, t \in Thresholds :
                      SourcesAndScores(stores[b], q, k, t)
                          = SourcesAndScores(stores[a], q, k, t)

C8_Witness ==
    /\ mirror[2] = [from |-> 1, ok |-> TRUE]
    /\ Len(stores[1].documents) = 2
    /\ Len(search(stores[2], "How do I get a refund?", 2, 0)) = 2

(***************************************************************************)
(* Properties of the retriever (SpecRetriever).                            *)
(***************************************************************************)
BuildCalls == <<"load_documents", "add_documents", "save_index">>

\* C9 as stated: load_index comes first; after True nothing else is called;
\* after False, load_documents, add_documents and save_index are each called
\* exactly once, in that order; and a construction over a built and
\* persisted index loads it and embeds nothing.
C9_BootstrapOrderAsStated ==
    op.name = "construct" =>
        /\ op.calls # <<>> /\ op.calls[1] = "load_index"
        /\ op.result => op.calls = <<"load_index">>
        /\ ~op.result => op.calls = <<"load_index">> \o BuildCalls
        /\ op.warm => op.result /\ op.calls = <<"load_index">>

\* C9, amended: after False, load_documents is called exactly once, and when
\* it yields at least one chunk add_documents and then save_index are each
\* called exactly once; a source that is missing or yields no chunk ends the
\* construction with an error after load_documents.
C9_BootstrapOrder ==
    op.name = "construct" =>
        /\ op.calls # <<>> /\ op.calls[1] = "load_index"
        /\ op.result => op.calls = <<"load_index">> /\ ~op.raised
        /\ ~op.result =>
              IF corpus.exists /\ corpus.chunks # <<>>
              THEN op.calls = <<"load_index">> \o BuildCalls
              ELSE op.calls = <<"load_index", "load_documents">> /\ op.raised
        /\ op.warm => op.result /\ op.calls = <<"load_index">>

C9_Witness ==
    /\ op.name = "construct"
    /\ op.warm
    /\ op.calls = <<"load_index">>
    /\ retr[op.inst]
    /\ Len(stores[op.inst].documents) = 2

\* C10: a run of the build pipeline that directly follows a run of it on the
\* same retriever, the document source unchanged, leaves the index with as
\* many entries as it had after the first run.
C10_RebuildIdempotent ==
    (op.name = "_build_vector_store" /\ op.prev = "_build_vector_store") =>
        Len(stores[op.inst].index) = op.sizeBefore

(***************************************************************************)
(* Properties of the queries (SpecQuery).                                  *)
(***************************************************************************)
\* what a retriever over the store retrieves for the query when the caller
\* supplies neither max_chunks nor threshold, best first
RetrievedByDefault(store, query) ==
    search(store, query, MAX_RELEVANT_CHUNKS, SIMILARITY_THRESHOLD)

\* C11: the references resolve_ticket gets from the retriever for the ticket
\* text are the distinct sources of the chunks retrieved for it, each once, a
\* source whose first chunk ranks higher before a source whose first chunk
\* ranks lower, and the empty list when nothing is retrieved.
C11_ReferencesDistinctInRankOrder ==
    entry = "resolve_ticket" =>
        /\ ~req.references.isNone
        /\ LET R == RetrievedByDefault(stores[1], req.ticket_text)
               refs == req.references.l
               First(s) == CHOOSE i \in 1..Len(R) :
                               /\ R[i].doc.source = s
                               /\ \A j \in 1..(i - 1) : R[j].doc.source # s
           IN  /\ {refs[i] : i \in 1..Len(refs)} = {R[i].doc.source : i \in 1..Len(R)}
               /\ \A i, j \in 1..Len(refs) : i # j => refs[i] # refs[j]
               /\ \A i, j \in 1..Len(refs) : i < j => First(refs[i]) < First(refs[j])
               /\ R = <<>> => refs = <<>>

\* C12: retrieve_relevant_context calls search with the max_chunks and the
\* threshold the caller supplied, whatever their value (0 included), and
\* with the configured value only for an argument that was not supplied.
C12_SuppliedArgumentsPassedOn ==
    lookup.name = "retrieve_relevant_context" =>
        /\ lookup.k = IF lookup.max_chunks.given THEN lookup.max_chunks.v
                      ELSE MAX_RELEVANT_CHUNKS
        /\ lookup.t = IF lookup.threshold.given THEN lookup.threshold.v
                      ELSE SIMILARITY_THRESHOLD

\* the similarity of the query with the vector at position i of the index
ScoreAt(store, query, i) ==
    InnerProduct(normalize_L2(encode_query(query)), store.index[i])

\* C13: on a store filled by add_documents, search returns exactly those of
\* the min(k, N) highest-similarity entries that score at least the
\* threshold, each as its chunk with its score, best first: at most k
\* results, none below the threshold; the empty list on an empty index.
C13_SearchTopKAboveThreshold ==
    lookup.name = "search" =>
        LET st == stores[lookup.inst]
            N == Len(st.index)
            R == lookup.results
            m == IF lookup.k <= N THEN lookup.k ELSE N
            Sc(i) == ScoreAt(st, lookup.query, i)
        IN  /\ N = 0 => R = <<>>
            /\ Len(R) <= lookup.k
            /\ \A r \in 1..Len(R) : R[r].score >= lookup.t
            /\ \A r \in 1..(Len(R) - 1) : R[r].score >= R[r + 1].score
            /\ N > 0 =>
                 \E T \in SUBSET (1..N) :
                    /\ Cardinality(T) = m
                    /\ \A i \in T, j \in (1..N) \ T : Sc(i) >= Sc(j)
                    /\ LET kept == {i \in T : Sc(i) >= lookup.t}
                       IN  /\ Len(R) = Cardinality(kept)
                           /\ \E f \in [1..Len(R) -> kept] :
                                 /\ \A a, b \in 1..Len(R) : a # b => f[a] # f[b]
                                 /\ \A r \in 1..Len(R) :
                                       R[r] = [doc |-> st.documents[f[r]],
                                               score |-> Sc(f[r])]

C13_Witness ==
    /\ lookup.name = "search"
    /\ stores[1].documents = <<c4, c1>>
    /\ lookup.query = "Domains are suspended for abuse."
    /\ lookup.k = 1
    /\ lookup.t = 1000
    /\ lookup.results = <<[doc |-> c1, score |-> 1000]>>

\* C14: threshold monotonicity.  For the store, query and k of a search, a
\* search with a higher threshold returns no more results, and a search
\* with a lower threshold no fewer.
C14_ThresholdMonotone ==
    lookup.name = "search" =>
        \A t2 \in Thresholds :
            LET n2 == Len(search(stores[lookup.inst], lookup.query, lookup.k, t2))
            IN  /\ lookup.t <= t2 => n2 <= Len(lookup.results)
                /\ t2 <= lookup.t => Len(lookup.results) <= n2

C14_Witness ==
    /\ lookup.name = "search"
    /\ stores[1].documents = <<c4, c1>>
    /\ lookup.query = "Domains are suspended for abuse."
    /\ lookup.k = 2
    /\ lookup.t = 866
    /\ Len(lookup.results) = 2
    /\ Len(search(stores[1], lookup.query, 2, 1000)) = 1

\* the n-th block of a context string
ContextBlock(n, r) ==
    "Source " \o ToString(n) \o ": " \o r.doc.source \o "\n" \o r.doc.content

\* the blocks n.. of the retrieved chunks, each ended by a newline and
\* separated from the next by a blank line
RECURSIVE ContextBlocks(_, _)
ContextBlocks(R, n) ==
    IF n > Len(R) THEN ""
    ELSE ContextBlock(n, R[n]) \o "\n"
         \o (IF n < Len(R) THEN "\n" \o ContextBlocks(R, n + 1) ELSE "")

\* C20: get_context_string returns the sentinel when retrieval yields no
\* chunk, and otherwise one block per retrieved chunk in non-increasing
\* order of score, the n-th being "Source n: <source>" and, on the next
\* line, the content, with a blank line between blocks.
C20_ContextStringFormat ==
    lookup.name = "get_context_string" =>
        LET k == IF lookup.max_chunks.given /\ lookup.max_chunks.v # 0
                 THEN lookup.max_chunks.v ELSE MAX_RELEVANT_CHUNKS
            R == search(stores[lookup.inst], lookup.query, k, SIMILARITY_THRESHOLD)
        IN  /\ \A r \in 1..(Len(R) - 1) : R[r].score >= R[r + 1].score
            /\ lookup.text = IF R = <<>> THEN "No relevant documentation found."
                             ELSE ContextBlocks(R, 1)

C20_Witness ==
    /\ lookup.name = "get_context_string"
    /\ stores[1].documents = <<c4, c1>>
    /\ lookup.text = "Source 1: policy.md: Suspension\nDomains are suspended for abuse.\n\nSource 2: billing.md: Refunds\nSuspended domains are not refunded.\n"

(***************************************************************************)
(* Further properties of the vector store (SpecStore).                     *)
(***************************************************************************)
\* the similarity of a query text with a chunk's own content
OwnSimilarity(query, chunk) ==
    InnerProduct(normalize_L2(encode_query(query)),
                 normalize_L2(ModelEncode(chunk.content)))

\* C15: in every state of a store, a search for the content of one of its
\* stored chunks (any k >= 1, any threshold up to the self-similarity)
\* returns that chunk, every returned chunk is paired with the similarity of
\* its own content to the query, and no returned chunk scores higher than
\* the chunk searched for.
C15_SelfSearchReturnsChunk ==
    \A i \in Inst :
        \A p \in 1..Len(stores[i].documents), k \in 1..MaxK :
            \A t \in {x \in Thresholds :
                        x <= OwnSimilarity(stores[i].documents[p].content,
                                           stores[i].documents[p])} :
                LET d == stores[i].documents[p]
                    R == search(stores[i], d.content, k, t)
                IN  /\ \E r \in 1..Len(R) :
                          /\ R[r].doc = d
                          /\ \A o \in 1..Len(R) : R[r].score >= R[o].score
                    /\ \A r \in 1..Len(R) :
                          R[r].score = OwnSimilarity(d.content, R[r].doc)

\* C16: an add_documents call with n chunks on a store of m vectors and m'
\* chunks leaves m + n vectors and m' + n chunks, the earlier entries as
\* they were and the new chunks, with the normalised embeddings of their
\* contents, after them in the given order; with an empty list the store
\* is unchanged.
C16_AddAppends ==
    [][\A i \in Inst, b \in Batches :
          AddDocuments(i, b) =>
             LET old == stores[i]
                 new == stores'[i]
                 m == Len(old.index)
             IN  /\ Len(new.index) = m + Len(b)
                 /\ Len(new.index) >= m
                 /\ SubSeq(new.index, 1, m) = old.index
                 /\ \A j \in 1..Len(b) :
                       new.index[m + j] = normalize_L2(ModelEncode(b[j].content))
                 /\ new.documents = old.documents \o b
                 /\ b = <<>> => new = old
                 /\ \A o \in Inst \ {i} : stores'[o] = stores[o]]_vars

C16_Witness ==
    /\ stores[1].documents = <<c1, c1>>
    /\ Len(stores[1].index) = 2
    /\ stores[2].documents = <<c2, c3>>

\* C17: a load_index call never raises; it returns False when the vector
\* artifact or the chunk-list artifact is missing or does not deserialize,
\* and True exactly when both were read.
C17_LoadReturnsFalseOnFailure ==
    op.name = "load_index" =>
        /\ ~op.raised
        /\ op.result <=> (disk.faiss.state = "ok" /\ disk.docs.state = "ok")

C17_Witness ==
    /\ op.name = "load_index"
    /\ disk.faiss.state = "ok"
    /\ disk.docs.state = "corrupt"
    /\ ~op.result
    /\ ~op.raised

(***************************************************************************)
(* Further properties of the retriever (SpecRetriever).                    *)
(***************************************************************************)
\* C18: a construction whose build finds the document source missing or
\* without chunks ends with an error after load_documents: add_documents and
\* save_index are not called and the index has got no vector.
C18_EmptySourceFails ==
    (/\ op.name = "construct"
     /\ ~op.result
     /\ ~(corpus.exists /\ corpus.chunks # <<>>)) =>
        /\ op.raised
        /\ op.calls = <<"load_index", "load_documents">>
        /\ op.added = 0
        /\ op.saveFault = "none"

C18_Witness ==
    /\ op.name = "construct"
    /\ corpus = Dir(<<>>)
    /\ op.raised
    /\ op.calls = <<"load_index", "load_documents">>
    /\ disk = EmptyDisk

\* C19: a construction whose save_index fails ends with that error, and a
\* construction that ran the build and returned a retriever has left on
\* disk the index and the chunk list the retriever holds.
C19_SaveFailurePropagates ==
    op.name = "construct" =>
        /\ op.saveFault \notin {"none", "ok"} => op.raised
        /\ (~op.raised /\ ~op.result) =>
              /\ retr[op.inst]
              /\ op.saveFault = "ok"
              /\ disk.faiss = write_index(stores[op.inst].index)
              /\ disk.docs = pickle_dump(stores[op.inst].documents)

C19_Witness ==
    /\ op.name = "construct"
    /\ op.saveFault = "docs_open"
    /\ op.raised
    /\ ~retr[op.inst]
    /\ disk.faiss.state = "ok"

(***************************************************************************)
(* Properties of the document processor (SpecProcessor).                   *)
(***************************************************************************)
\* C22 as stated: a text of at most max_length characters is returned as
\* one chunk equal to it; a longer text is returned as more than one chunk,
\* each of at most max_length + 1 characters.
C22_ChunkSizesAsStated ==
    (proc.name = "chunk_text" /\ proc.pc = "returned") =>
        IF Len(proc.text) <= proc.max_length
        THEN proc.chunks = <<proc.text>>
        ELSE /\ Len(proc.chunks) > 1
             /\ \A c \in 1..Len(proc.chunks) :
                   Len(proc.chunks[c]) <= proc.max_length + 1

\* C22, amended: a text of at most max_length characters is returned as one
\* chunk equal to it; of a longer text every chunk collected is non-empty
\* and at most max_length + 1 characters long, and when the call returns
\* there is at least one chunk unless the text is all whitespace.
C22_ChunkSizes ==
    proc.name = "chunk_text" =>
        IF Len(proc.text) <= proc.max_length
        THEN proc.pc = "returned" => proc.chunks = <<proc.text>>
        ELSE /\ \A c \in 1..Len(proc.chunks) :
                   /\ Len(proc.chunks[c]) >= 1
                   /\ Len(proc.chunks[c]) <= proc.max_length + 1
             /\ (proc.pc = "returned" /\ strip(proc.text) # <<>>) =>
                   Len(proc.chunks) >= 1

C22_Witness ==
    /\ proc.name = "chunk_text"
    /\ proc.pc = "returned"
    /\ proc.text = <<"a", "a", "a", ".">>
    /\ proc.max_length = 3
    /\ proc.overlap = 0
    /\ proc.chunks = <<proc.text>>

\* C23: every iteration of the loop of chunk_text moves the cut position
\* start forward, and start is never negative.
C23_StartAdvances ==
    [][ChunkTextIter => (proc'.start > proc.start /\ proc'.start >= 0)]_vars

\* a line of 1 to 6 '#', then whitespace, then at least one more character
IsHeadingLine(line) ==
    \E n \in 1..6 : \E w \in 1..Len(line) :
        /\ n + w < Len(line)
        /\ \A i \in 1..n : line[i] = "#"
        /\ \A i \in (n + 1)..(n + w) : line[i] \in Whitespace

\* the text of a heading line: what follows the '#' and the whitespace
HeadingText(line) ==
    LET cuts == {c \in 2..(Len(line) - 1) :
                   \E n \in 1..6 : /\ n < c
                                   /\ \A i \in 1..n : line[i] = "#"
                                   /\ \A i \in (n + 1)..c : line[i] \in Whitespace}
    IN  SubSeq(line, (CHOOSE c \in cuts : \A d \in cuts : c >= d) + 1, Len(line))

\* the lines, each followed by a newline
RECURSIVE LinesText(_)
LinesText(ls) ==
    IF ls = <<>> THEN <<>> ELSE Head(ls) \o <<"\n">> \o LinesText(Tail(ls))

\* C21: _split_by_headings returns, in document order, one section for the
\* text before the first heading (titled "Introduction") and one for each
\* heading line (titled with the heading's text), each holding exactly the
\* non-heading lines up to the next heading line, leaving out the sections
\* whose content is only whitespace; every chunk _process_file makes has
\* non-empty content.
C21_SplitByHeadings ==
    (proc.name = "_process_file" /\ proc.pc = "returned") =>
        LET lines == proc.lines
            starts == {0} \cup {i \in 1..Len(lines) : IsHeadingLine(lines[i])}
            stop(s) == CHOOSE e \in (starts \cup {Len(lines) + 1}) :
                          /\ e > s
                          /\ \A f \in starts : f > s => e <= f
            body(s) == LinesText(SubSeq(lines, s + 1, stop(s) - 1))
            title(s) == IF s = 0 THEN Introduction ELSE HeadingText(lines[s])
            kept == {s \in starts : strip(body(s)) # <<>>}
            rank(s) == Cardinality({t \in kept : t <= s})
        IN  /\ Len(proc.sections) = Cardinality(kept)
            /\ \A s \in kept :
                   proc.sections[rank(s)] = [title |-> title(s), content |-> body(s)]
            /\ Len(proc.docs) = Len(proc.sections)
            /\ \A i \in 1..Len(proc.docs) :
                   /\ proc.docs[i].content # <<>>
                   /\ proc.docs[i].content = strip(proc.sections[i].content)

\* C21 witness: a file with text before the first heading, a heading with no
\* text under it and a heading with text under it has been split.
C21_Witness ==
    /\ proc.name = "_process_file"
    /\ proc.pc = "returned"
    /\ proc.lines = << <<"a">>, <<"#", " ", "T">>,
                       <<"#", "#", "#", "#", "#", "#", " ", "A">>, <<"a">> >>
    /\ proc.sections = << [title |-> Introduction, content |-> <<"a", "\n">>],
                          [title |-> <<"A">>, content |-> <<"a", "\n">>] >>

\* C29: when load_documents has ended, it has returned, and the chunks of
\* every file of the directory that can be read are among those it returned.
C29_OtherDocumentsReturned ==
    (proc.name = "load_documents" /\ proc.exists
        /\ proc.pc \in {"returned", "raised"}) =>
        /\ proc.pc = "returned"
        /\ \A i \in 1..Len(proc.files) :
               proc.files[i].readable =>
                   LET file_chunks == _process_file(proc.files[i].name,
                                                    proc.files[i].content)
                   IN  \A j \in 1..Len(file_chunks) :
                           \E k \in 1..Len(proc.docs) : proc.docs[k] = file_chunks[j]

(***************************************************************************)
(* Properties of the store under failures (SpecStore).                     *)
(***************************************************************************)
\* C24: in every state reached by add_documents, save_index and load_index
\* calls, each store holds as many vectors as chunks.
C24_IndexSizeEqualsChunkCount ==
    \A i \in Inst : Len(stores[i].index) = Len(stores[i].documents)

\* C25: a load_index call that returns False leaves the index and the chunk
\* list of the store as they were before the call.
C25_FailedLoadChangesNothing ==
    [][(op'.name = "load_index" /\ ~op'.result) => stores' = stores]_vars

\* C26: when load_index returns True, the two artifacts it read are those of
\* one completed save_index: no failed save has changed the disk since.
C26_LoadedPairFromOneSave ==
    (op.name = "load_index" /\ op.result) => saved.how # "none"

C28_StableSortByScore ==
    (lookup.name \in {"retrieve_relevant_context",
                      "retrieve_relevant_context_mocked"}) =>
        LET n == Len(lookup.found)
        IN  /\ Len(lookup.results) = n
            /\ \A i \in 1..(n - 1) :
                   lookup.results[i].score >= lookup.results[i + 1].score
            /\ \E p \in [1..n -> 1..n] :
                   /\ \A i, j \in 1..n : p[i] = p[j] => i = j
                   /\ \A i \in 1..n : lookup.results[i] = lookup.found[p[i]]
                   /\ \A i, j \in 1..n :
                          (i < j /\ lookup.results[i].score = lookup.results[j].score)
                              => p[i] < p[j]

\* C28 witness: search returned a low, a high and a second low score, and
\* the high one was moved to the front with the two low ones in their order.
C28_Witness ==
    /\ lookup.name = "retrieve_relevant_context_mocked"
    /\ lookup.found = <<[doc |-> c1, score |-> 500], [doc |-> c2, score |-> 900],
                        [doc |-> c3, score |-> 500]>>
    /\ lookup.results = <<[doc |-> c2, score |-> 900], [doc |-> c1, score |-> 500],
                          [doc |-> c3, score |-> 500]>>

\* C30: every score search returns lies between 0 and 1 (scores are in
\* thousandths).
C30_ScoresInUnitInterval ==
    (lookup.name = "search") =>
        \A r \in 1..Len(lookup.results) :
            lookup.results[r].score >= 0 /\ lookup.results[r].score <= 1000

====
